---- MODULE Spec2Model ----
(***************************************************************************)
(* A model of pyo3's src/buffer.rs: the PyBuffer wrapper around CPython's  *)
(* Py_buffer, its format classifier (ElementType::from_format), the        *)
(* Element compatibility contract (impl_element!), the typed view          *)
(* constructors, the contiguous copy protocol and the release / Drop       *)
(* lifecycle under the GIL.                                                *)
(*                                                                         *)
(* A format string (&CStr) is a sequence of one-character strings.  An     *)
(* ElementType is a record [tag, bytes]; bytes is 0 for Bool and Unknown,  *)
(* which carry no width.                                                   *)
(***************************************************************************)
EXTENDS Integers, Sequences, FiniteSets, TLC

VARIABLES
    plat,       \* the compilation target: endianness and native C widths
    fmt,        \* SpecFormat: the format string under classification
    fres,       \* SpecFormat: the last call on fmt and its result
    desc,       \* the ffi::Py_buffer a PyBuffer wraps (fixed while it exists)
    vres,       \* SpecView: the last view constructor called and its result
    gilHolder,  \* Spec: the thread holding the GIL, or NoThread
    guards,     \* Spec: per thread, its live GILGuards, innermost last; TRUE for
                \*       the guard that took the GIL, FALSE for a nested one
    pc,         \* Spec: per thread, where it is inside a PyBuffer operation
    cur,        \* Spec: per thread, the buffer that operation is on
    bstate,     \* Spec: per PyBuffer::get call, what became of its descriptor
    holder,     \* Spec: per PyBuffer, the thread that owns the value
    exported,   \* Spec: per get call, the successful PyObject_GetBuffer calls
    released,   \* Spec: per get call, the PyBuffer_Release calls on its descriptor
    heldAtDrop, \* Spec: per thread, whether it held the GIL when its Drop began
    mem,        \* the owner's memory block behind desc, byte by byte from desc.buf
    dres,       \* SpecCopy, SpecAlias: the last operation on the buffer, its
                \*       arguments and its outcome
    roView,     \* SpecAlias: the read-only view the caller holds, or NoneView
    mutView,    \* SpecAlias: the mutable view the caller holds, or NoneView
    pres        \* SpecPtr: the last get_ptr call and how it ended

formatVars == <<fmt, fres>>
viewVars == <<vres>>
lifeVars ==
    <<gilHolder, guards, pc, cur, bstate, holder, exported, released, heldAtDrop>>
copyVars == <<mem, dres>>
aliasVars == <<roView, mutView>>
ptrVars == <<pres>>
vars == <<plat, formatVars, desc, viewVars, lifeVars, copyVars, aliasVars, ptrVars>>

\* What each specification leaves alone.
restOfFormat == <<desc, viewVars, lifeVars, copyVars, aliasVars, ptrVars>>
restOfView == <<formatVars, lifeVars, copyVars, aliasVars, ptrVars>>
restOfLife == <<plat, formatVars, desc, viewVars, copyVars, aliasVars, ptrVars>>
restOfCopy == <<formatVars, viewVars, lifeVars, aliasVars, ptrVars>>
restOfAlias == <<formatVars, viewVars, lifeVars, ptrVars>>
restOfPtr == <<formatVars, viewVars, lifeVars, copyVars, aliasVars>>

(***************************************************************************)
(* Bounds of the model.                                                    *)
(***************************************************************************)
\* Longest format string drawn (the code treats every length above 2 alike).
MaxFormatLen == 3
\* Largest address of the first byte (Py_buffer.buf) drawn: decides alignment.
MaxAddr == 4
\* Threads sharing the interpreter, PyBuffer::get calls made, and GILGuards a
\* thread's own code nests.
MaxThreads == 2
MaxBuffers == 2
MaxGuards == 1
\* Longest slice, in elements, handed to the copy protocol.
MaxSliceLen == 2
\* Longest index slice handed to get_ptr, and the largest index in it.
MaxIndices == 3
MaxIndex == 2

(***************************************************************************)
(* Compilation targets.  c_long and ptr are size_of c_long / c_ulong and   *)
(* size_of ssize_t / size_t / usize / isize; align64 is align_of of the    *)
(* 8-byte scalars (4 on i686).                                             *)
(***************************************************************************)
Platforms ==
    { [name |-> "x86_64-linux",   endian |-> "little", c_long |-> 8, ptr |-> 8, align64 |-> 8],
      [name |-> "x86_64-windows", endian |-> "little", c_long |-> 4, ptr |-> 8, align64 |-> 8],
      [name |-> "i686-linux",     endian |-> "little", c_long |-> 4, ptr |-> 4, align64 |-> 4],
      [name |-> "s390x-linux",    endian |-> "big",    c_long |-> 8, ptr |-> 8, align64 |-> 8] }

(***************************************************************************)
(* enum ElementType                                                        *)
(***************************************************************************)
SignedInteger(n)   == [tag |-> "SignedInteger",   bytes |-> n]
UnsignedInteger(n) == [tag |-> "UnsignedInteger", bytes |-> n]
Float(n)           == [tag |-> "Float",           bytes |-> n]
Bool               == [tag |-> "Bool",            bytes |-> 0]
Unknown            == [tag |-> "Unknown",         bytes |-> 0]

(***************************************************************************)
(* fn native_element_type_from_type_char                                   *)
(***************************************************************************)
native_element_type_from_type_char(p, type_char) ==
    CASE type_char = "c" -> UnsignedInteger(1)
      [] type_char = "b" -> SignedInteger(1)
      [] type_char = "B" -> UnsignedInteger(1)
      [] type_char = "?" -> Bool
      [] type_char = "h" -> SignedInteger(2)
      [] type_char = "H" -> UnsignedInteger(2)
      [] type_char = "i" -> SignedInteger(4)
      [] type_char = "I" -> UnsignedInteger(4)
      [] type_char = "l" -> SignedInteger(p.c_long)
      [] type_char = "L" -> UnsignedInteger(p.c_long)
      [] type_char = "q" -> SignedInteger(8)
      [] type_char = "Q" -> UnsignedInteger(8)
      [] type_char = "n" -> SignedInteger(p.ptr)
      [] type_char = "N" -> UnsignedInteger(p.ptr)
      [] type_char = "e" -> Float(2)
      [] type_char = "f" -> Float(4)
      [] type_char = "d" -> Float(8)
      [] OTHER -> Unknown

(***************************************************************************)
(* fn standard_element_type_from_type_char                                 *)
(***************************************************************************)
standard_long_is_8(type_char) ==
    CASE type_char \in {"c", "B"} -> UnsignedInteger(1)
      [] type_char = "b" -> SignedInteger(1)
      [] type_char = "?" -> Bool
      [] type_char = "h" -> SignedInteger(2)
      [] type_char = "H" -> UnsignedInteger(2)
      [] type_char = "i" -> SignedInteger(4)
      [] type_char = "I" -> UnsignedInteger(4)
      [] type_char \in {"l", "q"} -> SignedInteger(8)
      [] type_char \in {"L", "Q"} -> UnsignedInteger(8)
      [] type_char = "e" -> Float(2)
      [] type_char = "f" -> Float(4)
      [] type_char = "d" -> Float(8)
      [] OTHER -> Unknown

standard_element_type_from_type_char(type_char) ==
    CASE type_char \in {"c", "B"} -> UnsignedInteger(1)
      [] type_char = "b" -> SignedInteger(1)
      [] type_char = "?" -> Bool
      [] type_char = "h" -> SignedInteger(2)
      [] type_char = "H" -> UnsignedInteger(2)
      [] type_char \in {"i", "l"} -> SignedInteger(4)
      [] type_char \in {"I", "L"} -> UnsignedInteger(4)
      [] type_char = "q" -> SignedInteger(8)
      [] type_char = "Q" -> UnsignedInteger(8)
      [] type_char = "e" -> Float(2)
      [] type_char = "f" -> Float(4)
      [] type_char = "d" -> Float(8)
      [] OTHER -> Unknown

(***************************************************************************)
(* ElementType::from_format                                                *)
(***************************************************************************)
from_format(p, format) ==
    LET slice == format IN
    IF Len(slice) = 1 THEN native_element_type_from_type_char(p, slice[1])
    ELSE IF Len(slice) = 2 THEN
        CASE slice[1] = "@" -> native_element_type_from_type_char(p, slice[2])
          [] slice[1] \in {"=", "<", ">", "!"} ->
                 standard_element_type_from_type_char(slice[2])
          [] OTHER -> Unknown
    ELSE Unknown

(***************************************************************************)
(* fn is_matching_endian, one definition per cfg(target_endian)            *)
(***************************************************************************)
is_matching_endian_any_modifier(p, c) == c \in {"@", "=", "<", ">", "!"}

is_matching_endian(p, c) ==
    IF p.endian = "little" THEN c \in {"@", "=", "<"}
    ELSE c \in {"@", "=", ">", "!"}

(***************************************************************************)
(* The element types impl_element! is instantiated for: the tag $f and     *)
(* mem::size_of::<$t>() / mem::align_of::<$t>() on target p.               *)
(***************************************************************************)
ElementNames ==
    {"u8", "u16", "u32", "u64", "usize", "i8", "i16", "i32", "i64", "isize", "f32", "f64"}

element_tag(T) ==
    CASE T \in {"u8", "u16", "u32", "u64", "usize"} -> "UnsignedInteger"
      [] T \in {"i8", "i16", "i32", "i64", "isize"} -> "SignedInteger"
      [] T \in {"f32", "f64"} -> "Float"

size_of(p, T) ==
    CASE T \in {"u8", "i8"} -> 1
      [] T \in {"u16", "i16"} -> 2
      [] T \in {"u32", "i32", "f32"} -> 4
      [] T \in {"u64", "i64", "f64"} -> 8
      [] T \in {"usize", "isize"} -> p.ptr

align_of(p, T) ==
    IF size_of(p, T) = 8 /\ T \notin {"usize", "isize"} THEN p.align64
    ELSE size_of(p, T)

(***************************************************************************)
(* impl_element!: <T as Element>::is_compatible_format                     *)
(***************************************************************************)
is_compatible_format_tag_only(p, T, format) ==
    LET slice == format IN
    IF Len(slice) > 1 /\ ~is_matching_endian(p, slice[1]) THEN FALSE
    ELSE from_format(p, format).tag = element_tag(T)

is_compatible_format(p, T, format) ==
    LET slice == format IN
    IF Len(slice) > 1 /\ ~is_matching_endian(p, slice[1]) THEN FALSE
    ELSE from_format(p, format) = [tag |-> element_tag(T), bytes |-> size_of(p, T)]

(***************************************************************************)
(* ffi::Py_buffer as PyObject_GetBuffer(obj, buf, PyBUF_FULL_RO) fills it. *)
(* A layout gives ndim, shape and the strides in items; the strides of the *)
(* descriptor are in bytes.  len is product(shape) * itemsize, as the      *)
(* buffer protocol defines it.                                             *)
(***************************************************************************)
RECURSIVE Product(_)
Product(s) == IF Len(s) = 0 THEN 1 ELSE s[1] * Product(Tail(s))

Layouts ==
    { [name |-> "scalar",    shape |-> <<>>,     istrides |-> <<>>],
      [name |-> "empty",     shape |-> <<0>>,    istrides |-> <<1>>],
      [name |-> "vector",    shape |-> <<2>>,    istrides |-> <<1>>],
      [name |-> "strided",   shape |-> <<2>>,    istrides |-> <<2>>],
      [name |-> "broadcast", shape |-> <<2>>,    istrides |-> <<0>>],
      [name |-> "c_matrix",  shape |-> <<2, 2>>, istrides |-> <<2, 1>>],
      [name |-> "f_matrix",  shape |-> <<2, 2>>, istrides |-> <<1, 2>>] }

Descriptor(layout, itemsize, readonly, format_null, format, suboffsets_null, buf) ==
    [ buf |-> buf,
      len |-> Product(layout.shape) * itemsize,
      itemsize |-> itemsize,
      readonly |-> readonly,
      ndim |-> Len(layout.shape),
      format_null |-> format_null,
      format |-> format,
      shape |-> layout.shape,
      strides |-> [i \in 1..Len(layout.shape) |-> layout.istrides[i] * itemsize],
      suboffsets_null |-> suboffsets_null ]

NoDescriptor ==
    Descriptor([name |-> "scalar", shape |-> <<>>, istrides |-> <<>>],
               1, TRUE, TRUE, <<>>, TRUE, 0)

(***************************************************************************)
(* PyBuffer's read accessors.                                              *)
(***************************************************************************)
readonly(b) == b.readonly

item_size(b) == b.itemsize

item_count(b) == b.len \div b.itemsize

len_bytes(b) == b.len

format(b) == IF b.format_null THEN <<"B">> ELSE b.format

(***************************************************************************)
(* ffi::PyBuffer_IsContiguous, the owner's contiguity oracle behind        *)
(* is_c_contiguous / is_fortran_contiguous: CPython answers 0 when there   *)
(* are suboffsets, 1 when len is 0, and otherwise walks the dimensions     *)
(* (last to first for 'C', first to last for 'F') requiring               *)
(* strides[i] = itemsize * product of the extents already walked wherever  *)
(* shape[i] > 1.                                                           *)
(***************************************************************************)
RECURSIVE ContiguousFrom(_, _, _)
ContiguousFrom(b, dims, sd) ==
    IF Len(dims) = 0 THEN TRUE
    ELSE LET i == Head(dims) IN
         IF b.shape[i] > 1 /\ b.strides[i] # sd THEN FALSE
         ELSE ContiguousFrom(b, Tail(dims), sd * b.shape[i])

PyBuffer_IsContiguous(b, order) ==
    IF ~b.suboffsets_null THEN FALSE
    ELSE IF b.len = 0 THEN TRUE
    ELSE ContiguousFrom(b,
             IF order = "C" THEN [k \in 1..b.ndim |-> b.ndim + 1 - k]
             ELSE [k \in 1..b.ndim |-> k],
             b.itemsize)

is_c_contiguous(b) == PyBuffer_IsContiguous(b, "C")

is_fortran_contiguous(b) == PyBuffer_IsContiguous(b, "F")

(***************************************************************************)
(* get_ptr.  indices is the caller's slice and beyond the words that lie   *)
(* in memory after its last element: ffi::PyBuffer_GetPointer is handed    *)
(* indices.as_ptr() alone and reads view->ndim indices from it, so for a   *)
(* slice shorter than ndim it reads the words after the slice, which hold  *)
(* any value (a read outside the slice).  Descriptors without suboffsets.  *)
(***************************************************************************)
RECURSIVE PointerFrom(_, _, _)
PointerFrom(b, words, i) ==
    IF i > b.ndim THEN 0
    ELSE words[i] * b.strides[i] + PointerFrom(b, words, i + 1)

PyBuffer_GetPointer(b, words) == b.buf + PointerFrom(b, words, 1)

PtrPanic(kind) ==
    [outcome |-> "panic", kind |-> kind, called |-> FALSE, read |-> <<>>, addr |-> 0]

PtrAddress(b, words) ==
    [outcome |-> "address", kind |-> "-", called |-> TRUE,
     read |-> SubSeq(words, 1, b.ndim), addr |-> PyBuffer_GetPointer(b, words)]

get_ptr_without_assert(b, indices, beyond) ==
    IF Len(indices) > b.ndim
    THEN PtrPanic("slice_index")
    ELSE PtrAddress(b, indices \o beyond)

\* &self.shape()[..indices.len()] panics for a slice longer than ndim; then
\* the assertion on each index; then the call.
get_ptr(b, indices, beyond) ==
    IF Len(indices) > b.ndim
    THEN PtrPanic("slice_index")
    ELSE IF \E i \in 1..Len(indices) : ~(indices[i] < b.shape[i])
    THEN PtrPanic("assertion")
    ELSE PtrAddress(b, indices \o beyond)

PtrCall(indices, beyond, res) ==
    [op |-> "get_ptr", indices |-> indices, beyond |-> beyond,
     outcome |-> res.outcome, kind |-> res.kind, called |-> res.called,
     read |-> res.read, addr |-> res.addr]

NoPtrCall ==
    [op |-> "none", indices |-> <<>>, beyond |-> <<>>,
     outcome |-> "-", kind |-> "-", called |-> FALSE, read |-> <<>>, addr |-> 0]

(***************************************************************************)
(* The typed view constructors.  Some(..) is slice::from_raw_parts(buf,    *)
(* item_count): the address, the element count, the element type and the   *)
(* cell type of the returned slice.                                        *)
(***************************************************************************)
NoneView == [some |-> FALSE, ptr |-> 0, len |-> 0, T |-> "-", cell |-> "-"]
SomeView(ptr, n, T, cell) == [some |-> TRUE, ptr |-> ptr, len |-> n, T |-> T, cell |-> cell]

\* A view a caller keeps, with the constructor that returned it.
Held(by, view) == [by |-> by, view |-> view]

NoViewHeld == Held("none", NoneView)

as_slice(p, b, T) ==
    IF /\ size_of(p, T) = item_size(b)
       /\ b.buf % align_of(p, T) = 0
       /\ is_c_contiguous(b)
       /\ is_compatible_format(p, T, format(b))
    THEN SomeView(b.buf, item_count(b), T, "ReadOnlyCell")
    ELSE NoneView

as_mut_slice_no_readonly_check(p, b, T) ==
    IF /\ size_of(p, T) = item_size(b)
       /\ b.buf % align_of(p, T) = 0
       /\ is_c_contiguous(b)
       /\ is_compatible_format(p, T, format(b))
    THEN SomeView(b.buf, item_count(b), T, "Cell")
    ELSE NoneView

as_mut_slice(p, b, T) ==
    IF /\ ~readonly(b)
       /\ size_of(p, T) = item_size(b)
       /\ b.buf % align_of(p, T) = 0
       /\ is_c_contiguous(b)
       /\ is_compatible_format(p, T, format(b))
    THEN SomeView(b.buf, item_count(b), T, "Cell")
    ELSE NoneView

as_fortran_slice_checks_c_order(p, b, T) ==
    IF /\ size_of(p, T) = item_size(b)
       /\ b.buf % align_of(p, T) = 0
       /\ is_c_contiguous(b)
       /\ is_compatible_format(p, T, format(b))
    THEN SomeView(b.buf, item_count(b), T, "ReadOnlyCell")
    ELSE NoneView

as_fortran_slice(p, b, T) ==
    IF /\ size_of(p, T) = item_size(b)
       /\ b.buf % align_of(p, T) = 0
       /\ is_fortran_contiguous(b)
       /\ is_compatible_format(p, T, format(b))
    THEN SomeView(b.buf, item_count(b), T, "ReadOnlyCell")
    ELSE NoneView

as_fortran_mut_slice(p, b, T) ==
    IF /\ ~readonly(b)
       /\ size_of(p, T) = item_size(b)
       /\ b.buf % align_of(p, T) = 0
       /\ is_fortran_contiguous(b)
       /\ is_compatible_format(p, T, format(b))
    THEN SomeView(b.buf, item_count(b), T, "Cell")
    ELSE NoneView

NoViewCall == [op |-> "none", T |-> "-", r |-> NoneView]

(***************************************************************************)
(* The owner's memory and the contiguous-copy primitives.                  *)
(*                                                                         *)
(* mem[q] is the byte at address desc.buf + q - 1.  ElemOffset is what     *)
(* PyBuffer_GetPointer adds to buf for the k-th element of the traversal   *)
(* in the given order ('C': last index fastest, 'F': first index fastest)  *)
(* of a descriptor without suboffsets.                                     *)
(***************************************************************************)
RECURSIVE ElemOffsetFrom(_, _, _)
ElemOffsetFrom(b, dims, k) ==
    IF Len(dims) = 0 THEN 0
    ELSE LET i == Head(dims) IN
         (k % b.shape[i]) * b.strides[i]
             + ElemOffsetFrom(b, Tail(dims), k \div b.shape[i])

ElemOffset(b, k, fort) ==
    ElemOffsetFrom(b,
        IF fort = "C" THEN [j \in 1..b.ndim |-> b.ndim + 1 - j]
        ELSE [j \in 1..b.ndim |-> j],
        k)

SetMax(S) == CHOOSE x \in S : \A y \in S : y <= x

\* Bytes of the owner's block the descriptor can reach: up to the end of its
\* last element, and the len bytes a contiguous descriptor is copied as.
MemSize(b) ==
    SetMax({ElemOffset(b, k, "C") + b.itemsize : k \in 0..(item_count(b) - 1)}
           \cup {IF is_c_contiguous(b) \/ is_fortran_contiguous(b) THEN b.len ELSE 0})

\* ffi::PyBuffer_ToContiguous(buf, view, len, fort): -1 when len differs from
\* view->len or the owner fails (ok = FALSE, out of memory); else memcpy for a
\* view contiguous in that order, and an element-by-element gather otherwise.
PyBuffer_ToContiguous(b, m, len, fort, ok) ==
    IF len # b.len \/ ~ok THEN [rc |-> -1, bytes |-> <<>>]
    ELSE IF PyBuffer_IsContiguous(b, fort)
    THEN [rc |-> 0, bytes |-> SubSeq(m, 1, len)]
    ELSE [rc |-> 0,
          bytes |-> [q \in 1..(item_count(b) * b.itemsize) |->
                        m[ElemOffset(b, (q - 1) \div b.itemsize, fort)
                          + ((q - 1) % b.itemsize) + 1]]]

\* ffi::PyBuffer_FromContiguous(view, buf, len, fort): len is cut to
\* view->len; memcpy for a view contiguous in that order, otherwise the
\* elements are stored one after the other through PyBuffer_GetPointer (a
\* later element overwrites an earlier one at the same address); -1, with
\* nothing stored, when the owner fails.
PyBuffer_FromContiguous(b, m, src, len, fort, ok) ==
    LET n == IF len > b.len THEN b.len ELSE len
        count == n \div b.itemsize
        covering(q) == {k \in 0..(count - 1) :
                          /\ ElemOffset(b, k, fort) < q
                          /\ q <= ElemOffset(b, k, fort) + b.itemsize}
    IN  IF ~ok THEN [rc |-> -1, mem |-> m]
        ELSE IF PyBuffer_IsContiguous(b, fort)
        THEN [rc |-> 0, mem |-> [q \in 1..Len(m) |-> IF q <= n THEN src[q] ELSE m[q]]]
        ELSE [rc |-> 0,
              mem |-> [q \in 1..Len(m) |->
                         IF covering(q) = {} THEN m[q]
                         ELSE LET k == SetMax(covering(q)) IN
                              src[k * b.itemsize + (q - 1 - ElemOffset(b, k, fort)) + 1]]]

(***************************************************************************)
(* The contiguous copy protocol.  A slice of T is its bytes, so            *)
(* mem::size_of_val(slice) is Len.  Each operator returns the PyResult     *)
(* (r), whether the owner's primitive was called, the caller's slice or    *)
(* vector afterwards (out) and the buffer's memory afterwards (mem).       *)
(***************************************************************************)
copy_to_slice_impl_format_first(p, b, m, T, target, fort, ok) ==
    IF ~is_compatible_format(p, T, format(b)) \/ size_of(p, T) # item_size(b)
    THEN [r |-> "IncompatibleFormat", called |-> FALSE, out |-> target, mem |-> m]
    ELSE IF Len(target) # len_bytes(b)
    THEN [r |-> "LengthMismatch", called |-> FALSE, out |-> target, mem |-> m]
    ELSE LET c == PyBuffer_ToContiguous(b, m, b.len, fort, ok) IN
         IF c.rc = -1
         THEN [r |-> "PrimitiveError", called |-> TRUE, out |-> target, mem |-> m]
         ELSE [r |-> "Ok", called |-> TRUE, out |-> c.bytes, mem |-> m]

copy_to_slice_impl(p, b, m, T, target, fort, ok) ==
    IF Len(target) # len_bytes(b)
    THEN [r |-> "LengthMismatch", called |-> FALSE, out |-> target, mem |-> m]
    ELSE IF ~is_compatible_format(p, T, format(b)) \/ size_of(p, T) # item_size(b)
    THEN [r |-> "IncompatibleFormat", called |-> FALSE, out |-> target, mem |-> m]
    ELSE LET c == PyBuffer_ToContiguous(b, m, b.len, fort, ok) IN
         IF c.rc = -1
         THEN [r |-> "PrimitiveError", called |-> TRUE, out |-> target, mem |-> m]
         ELSE [r |-> "Ok", called |-> TRUE, out |-> c.bytes, mem |-> m]

\* Bytes of the allocation Vec::with_capacity(item_count) makes for a Vec<T>,
\* and the byte count to_vec_impl hands to the primitive (self.0.len).
to_vec_capacity(p, b, T) == item_count(b) * size_of(p, T)

to_vec_request(b) == b.len

to_vec_impl_without_format_check(p, b, m, T, fort, ok) ==
    IF size_of(p, T) # item_size(b)
    THEN [r |-> "IncompatibleFormat", called |-> FALSE, out |-> <<>>, mem |-> m]
    ELSE LET n == item_count(b)
             c == PyBuffer_ToContiguous(b, m, b.len, fort, ok)
         IN  IF c.rc = -1
             THEN [r |-> "PrimitiveError", called |-> TRUE, out |-> <<>>, mem |-> m]
             ELSE [r |-> "Ok", called |-> TRUE,
                   out |-> SubSeq(c.bytes, 1, n * size_of(p, T)), mem |-> m]

to_vec_impl_always_fortran(p, b, m, T, fort, ok) ==
    IF ~is_compatible_format(p, T, format(b)) \/ size_of(p, T) # item_size(b)
    THEN [r |-> "IncompatibleFormat", called |-> FALSE, out |-> <<>>, mem |-> m]
    ELSE LET n == item_count(b)
             c == PyBuffer_ToContiguous(b, m, b.len, "F", ok)
         IN  IF c.rc = -1
             THEN [r |-> "PrimitiveError", called |-> TRUE, out |-> <<>>, mem |-> m]
             ELSE [r |-> "Ok", called |-> TRUE,
                   out |-> SubSeq(c.bytes, 1, n * size_of(p, T)), mem |-> m]

\* Vec::with_capacity(item_count), the primitive writing into it, and
\* set_len(item_count) only after error_on_minusone let the call through.
to_vec_impl(p, b, m, T, fort, ok) ==
    IF ~is_compatible_format(p, T, format(b)) \/ size_of(p, T) # item_size(b)
    THEN [r |-> "IncompatibleFormat", called |-> FALSE, out |-> <<>>, mem |-> m]
    ELSE LET n == item_count(b)
             c == PyBuffer_ToContiguous(b, m, b.len, fort, ok)
         IN  IF c.rc = -1
             THEN [r |-> "PrimitiveError", called |-> TRUE, out |-> <<>>, mem |-> m]
             ELSE [r |-> "Ok", called |-> TRUE,
                   out |-> SubSeq(c.bytes, 1, n * size_of(p, T)), mem |-> m]

copy_from_slice_impl_length_first(p, b, m, T, source, fort, ok) ==
    IF Len(source) # len_bytes(b)
    THEN [r |-> "LengthMismatch", called |-> FALSE, out |-> source, mem |-> m]
    ELSE IF readonly(b)
    THEN [r |-> "ReadOnly", called |-> FALSE, out |-> source, mem |-> m]
    ELSE IF ~is_compatible_format(p, T, format(b)) \/ size_of(p, T) # item_size(b)
    THEN [r |-> "IncompatibleFormat", called |-> FALSE, out |-> source, mem |-> m]
    ELSE LET c == PyBuffer_FromContiguous(b, m, source, b.len, fort, ok) IN
         IF c.rc = -1
         THEN [r |-> "PrimitiveError", called |-> TRUE, out |-> source, mem |-> c.mem]
         ELSE [r |-> "Ok", called |-> TRUE, out |-> source, mem |-> c.mem]

copy_from_slice_impl(p, b, m, T, source, fort, ok) ==
    IF readonly(b)
    THEN [r |-> "ReadOnly", called |-> FALSE, out |-> source, mem |-> m]
    ELSE IF Len(source) # len_bytes(b)
    THEN [r |-> "LengthMismatch", called |-> FALSE, out |-> source, mem |-> m]
    ELSE IF ~is_compatible_format(p, T, format(b)) \/ size_of(p, T) # item_size(b)
    THEN [r |-> "IncompatibleFormat", called |-> FALSE, out |-> source, mem |-> m]
    ELSE LET c == PyBuffer_FromContiguous(b, m, source, b.len, fort, ok) IN
         IF c.rc = -1
         THEN [r |-> "PrimitiveError", called |-> TRUE, out |-> source, mem |-> c.mem]
         ELSE [r |-> "Ok", called |-> TRUE, out |-> source, mem |-> c.mem]

\* The last operation: its name, element type, order, the slice handed in
\* (arg), the index and value of a Cell::set, and the outcome.
Op(op, T, fort, arg, idx, val, res) ==
    [op |-> op, T |-> T, fort |-> fort, arg |-> arg, idx |-> idx, val |-> val,
     r |-> res.r, called |-> res.called, out |-> res.out]

NoOp ==
    Op("none", "-", "-", <<>>, 0, <<>>,
       [r |-> "-", called |-> FALSE, out |-> <<>>])

(***************************************************************************)
(* Format strings drawn by the model: every string of length 0, 1 and 2    *)
(* over the struct-module characters, and longer ones over a few of them.  *)
(***************************************************************************)
TypeChars ==
    {"c", "b", "B", "?", "h", "H", "i", "I", "l", "L", "q", "Q", "n", "N", "e", "f", "d"}
Modifiers == {"@", "=", "<", ">", "!"}
OtherChars == {"x", "s", "P", "2"}
Chars == TypeChars \cup Modifiers \cup OtherChars
LongChars == {"<", "B", "d"}

SeqsOver(S, n) == [1..n -> S]

Formats ==
    UNION { SeqsOver(Chars, n) : n \in 0..2 }
      \cup UNION { SeqsOver(LongChars, n) : n \in 3..MaxFormatLen }

(***************************************************************************)
(* Threads, PyBuffer::get calls, and the values the variables of one       *)
(* specification keep under the others.                                    *)
(***************************************************************************)
Threads == 1..MaxThreads
Buffers == 1..MaxBuffers
NoThread == 0
NoBuffer == 0

NoCall == [op |-> "none", T |-> "-", r |-> Unknown, ok |-> FALSE]

IdleFormat == fmt = <<>> /\ fres = NoCall

IdleView == vres = NoViewCall

IdleCopy == mem = <<>> /\ dres = NoOp

IdleAlias == roView = NoViewHeld /\ mutView = NoViewHeld

IdlePtr == pres = NoPtrCall

IdleLife ==
    /\ gilHolder = NoThread
    /\ guards = [t \in Threads |-> <<>>]
    /\ pc = [t \in Threads |-> "idle"]
    /\ cur = [t \in Threads |-> NoBuffer]
    /\ bstate = [b \in Buffers |-> "none"]
    /\ holder = [b \in Buffers |-> NoThread]
    /\ exported = [b \in Buffers |-> 0]
    /\ released = [b \in Buffers |-> 0]
    /\ heldAtDrop = [t \in Threads |-> FALSE]

(***************************************************************************)
(* SpecFormat: the classifier and the compatibility contract applied to    *)
(* one format string on one target.                                        *)
(***************************************************************************)
InitFormat ==
    /\ plat \in Platforms
    /\ fmt \in Formats
    /\ fres = NoCall
    /\ desc = NoDescriptor
    /\ IdleView
    /\ IdleLife
    /\ IdlePtr
    /\ IdleCopy
    /\ IdleAlias

CallFromFormat ==
    /\ fres' = [op |-> "from_format", T |-> "-", r |-> from_format(plat, fmt), ok |-> FALSE]
    /\ UNCHANGED <<plat, fmt, restOfFormat>>

CallIsCompatibleFormat ==
    \E T \in ElementNames :
        /\ fres' = [op |-> "is_compatible_format", T |-> T, r |-> Unknown,
                    ok |-> is_compatible_format(plat, T, fmt)]
        /\ UNCHANGED <<plat, fmt, restOfFormat>>

NextFormat == CallFromFormat \/ CallIsCompatibleFormat

SpecFormat == InitFormat /\ [][NextFormat]_vars

(***************************************************************************)
(* The documented classification tables, as the interface states them:     *)
(* widths by type character, independent of the match arms above.          *)
(***************************************************************************)
IntegerTags == {"SignedInteger", "UnsignedInteger"}
IntegerChars == {"c", "b", "B", "h", "H", "i", "I", "l", "L", "q", "Q", "n", "N"}

DocFloatWidth(c) == IF c = "e" THEN 2 ELSE IF c = "f" THEN 4 ELSE 8

DocNativeWidth(p, c) ==
    IF c \in {"c", "b", "B"} THEN 1
    ELSE IF c \in {"h", "H"} THEN 2
    ELSE IF c \in {"i", "I"} THEN 4
    ELSE IF c \in {"l", "L"} THEN p.c_long
    ELSE IF c \in {"q", "Q"} THEN 8
    ELSE p.ptr

DocStandardWidth(c) ==
    IF c \in {"c", "b", "B"} THEN 1
    ELSE IF c \in {"h", "H"} THEN 2
    ELSE IF c \in {"i", "I", "l", "L"} THEN 4
    ELSE 8

DocumentedNative(p, c, r) ==
    /\ c \in IntegerChars => r.tag \in IntegerTags /\ r.bytes = DocNativeWidth(p, c)
    /\ c = "?" => r = Bool
    /\ c \in {"e", "f", "d"} => r = Float(DocFloatWidth(c))
    /\ c \notin IntegerChars \cup {"?", "e", "f", "d"} => r = Unknown

DocumentedStandard(c, r) ==
    /\ c \in IntegerChars \ {"n", "N"} =>
           r.tag \in IntegerTags /\ r.bytes = DocStandardWidth(c)
    /\ c = "?" => r = Bool
    /\ c \in {"e", "f", "d"} => r = Float(DocFloatWidth(c))
    /\ c \notin (IntegerChars \ {"n", "N"}) \cup {"?", "e", "f", "d"} => r = Unknown

\* C9: ElementType::from_format classifies every format string as documented:
\* a 1-character string and "@x" by the native table (platform widths), "=x",
\* "<x", ">x", "!x" by the standard table (1/2/4/8 bytes, no 'n'/'N'), and
\* every other string (length 0 or above 2, an unrecognised modifier or type
\* character) as Unknown.
C9_FromFormatAsDocumented ==
    fres.op = "from_format" =>
        LET n == Len(fmt)
            native == n = 1 \/ (n = 2 /\ fmt[1] = "@")
            standard == n = 2 /\ fmt[1] \in {"=", "<", ">", "!"}
        IN  /\ native => DocumentedNative(plat, fmt[n], fres.r)
            /\ standard => DocumentedStandard(fmt[n], fres.r)
            /\ ~native /\ ~standard => fres.r = Unknown

\* C9 witness: "<l" is classified by the standard table (4 bytes) on a target
\* whose native long has 8.
C9_Witness ==
    /\ fres.op = "from_format"
    /\ fmt = <<"<", "l">>
    /\ plat.c_long = 8
    /\ fres.r = SignedInteger(4)

\* C10: for every supported element type T and every format string longer than
\* one character, T::is_compatible_format is false when the first character is
\* not a modifier matching the target's byte order ('@', '=', '<' on
\* little-endian; '@', '=', '>', '!' on big-endian), whatever follows it.
C10_MismatchedModifierRejected ==
    (/\ fres.op = "is_compatible_format"
     /\ Len(fmt) > 1
     /\ fmt[1] \notin (IF plat.endian = "little" THEN {"@", "=", "<"}
                       ELSE {"@", "=", ">", "!"}))
        => ~fres.ok

\* C10 witness: ">H" against u16 on a little-endian target: type character and
\* width match u16, the modifier does not match the byte order, and the answer
\* is false.
C10_Witness ==
    /\ fres.op = "is_compatible_format"
    /\ fres.T = "u16"
    /\ fmt = <<">", "H">>
    /\ plat.endian = "little"
    /\ from_format(plat, fmt) = UnsignedInteger(2)
    /\ ~fres.ok

(***************************************************************************)
(* SpecView: the four view constructors applied to one descriptor.  The    *)
(* descriptor's fields are drawn independently of each other: the code     *)
(* checks each of them and trusts the owner for none.                      *)
(***************************************************************************)
ItemSizes == {1, 2, 4, 8}

ViewFormats ==
    { <<"B">>, <<"H">>, <<"<", "H">>, <<">", "H">>, <<"f">>, <<"L">>, <<"d">> }

ViewDescriptors ==
    { Descriptor(l, sz, ro, FALSE, f, TRUE, a) :
        l \in {l \in Layouts : l.name \in {"vector", "c_matrix", "f_matrix"}},
        sz \in ItemSizes, ro \in BOOLEAN, f \in ViewFormats, a \in 0..MaxAddr }
    \cup
    { Descriptor(l, 1, ro, fn, <<"B">>, so, a) :
        l \in Layouts, ro \in BOOLEAN, fn \in BOOLEAN, so \in BOOLEAN, a \in 0..MaxAddr }

InitView ==
    /\ plat \in Platforms
    /\ desc \in ViewDescriptors
    /\ vres = NoViewCall
    /\ IdleFormat
    /\ IdleLife
    /\ IdlePtr
    /\ IdleCopy
    /\ IdleAlias

CallAsSlice ==
    \E T \in ElementNames :
        /\ vres' = [op |-> "as_slice", T |-> T, r |-> as_slice(plat, desc, T)]
        /\ UNCHANGED <<plat, desc, restOfView>>

CallAsMutSlice ==
    \E T \in ElementNames :
        /\ vres' = [op |-> "as_mut_slice", T |-> T, r |-> as_mut_slice(plat, desc, T)]
        /\ UNCHANGED <<plat, desc, restOfView>>

CallAsFortranSlice ==
    \E T \in ElementNames :
        /\ vres' = [op |-> "as_fortran_slice", T |-> T,
                    r |-> as_fortran_slice(plat, desc, T)]
        /\ UNCHANGED <<plat, desc, restOfView>>

CallAsFortranMutSlice ==
    \E T \in ElementNames :
        /\ vres' = [op |-> "as_fortran_mut_slice", T |-> T,
                    r |-> as_fortran_mut_slice(plat, desc, T)]
        /\ UNCHANGED <<plat, desc, restOfView>>

NextView == CallAsSlice \/ CallAsMutSlice \/ CallAsFortranSlice \/ CallAsFortranMutSlice

SpecView == InitView /\ [][NextView]_vars

\* The five conditions of the view-construction law for the call recorded in
\* vres, each read off the descriptor.
ViewSizeOk == size_of(plat, vres.T) = desc.itemsize
ViewAlignOk == desc.buf % align_of(plat, vres.T) = 0
ViewOrderOk ==
    PyBuffer_IsContiguous(desc,
        IF vres.op \in {"as_slice", "as_mut_slice"} THEN "C" ELSE "F")
ViewFormatOk == is_compatible_format(plat, vres.T, format(desc))
ViewWritableOk ==
    vres.op \in {"as_mut_slice", "as_fortran_mut_slice"} => ~desc.readonly

\* C4: each of as_slice, as_fortran_slice, as_mut_slice, as_fortran_mut_slice
\* returns Some for element type T if and only if size_of T = item_size,
\* data_ptr is a multiple of align_of T, the owner's oracle reports contiguity
\* in the requested order, T::is_compatible_format(format) holds and, for the
\* mutable variants, the descriptor is not read-only; with any one of them
\* false the result is None.
C4_ViewConstructionLaw ==
    vres.op # "none" =>
        (vres.r.some <=>
            (ViewSizeOk /\ ViewAlignOk /\ ViewOrderOk /\ ViewFormatOk /\ ViewWritableOk))

\* C4 witness: as_mut_slice answers None on a read-only descriptor for which
\* the four other conditions hold (as_slice of the same T would be Some).
C4_Witness ==
    /\ vres.op = "as_mut_slice"
    /\ desc.readonly
    /\ ViewSizeOk /\ ViewAlignOk /\ ViewOrderOk /\ ViewFormatOk
    /\ ~vres.r.some
    /\ as_slice(plat, desc, vres.T).some

(***************************************************************************)
(* Spec: the lifecycle of PyBuffer values under the GIL.                   *)
(*                                                                         *)
(* Python::acquire_gil and the GILGuard it returns (crate::Python) wrap    *)
(* PyGILState_Ensure / PyGILState_Release: the call blocks until no other  *)
(* thread holds the GIL, nests on a thread that holds it already, and the  *)
(* guard's drop gives the GIL up only if its own call took it.  A          *)
(* Python<'p> token exists on a thread only while that thread holds the    *)
(* GIL.                                                                    *)
(***************************************************************************)
HoldsGil(t) == gilHolder = t

GilAvailable(t) == gilHolder \in {NoThread, t}

PushGuard(t) == [guards EXCEPT ![t] = Append(@, gilHolder # t)]

PopGuard(t) == [guards EXCEPT ![t] = SubSeq(@, 1, Len(@) - 1)]

HolderAfterPop(t) == IF guards[t][Len(guards[t])] THEN NoThread ELSE gilHolder

\* A thread inside a call into the owner made on behalf of a PyBuffer.
InsidePcs == {"in_release", "drop_in_release", "in_copy"}

\* b is borrowed (&self) by an operation in progress.
Borrowed(b) == \E u \in Threads : pc[u] = "in_copy" /\ cur[u] = b

InitLife ==
    /\ IdleLife
    /\ IdlePtr
    /\ plat = CHOOSE p \in Platforms : p.name = "x86_64-linux"
    /\ IdleFormat
    /\ desc = NoDescriptor
    /\ IdleView
    /\ IdleCopy
    /\ IdleAlias

\* let guard = Python::acquire_gil() in the thread's own code.
acquire_gil(t) ==
    /\ pc[t] = "idle"
    /\ Len(guards[t]) < MaxGuards
    /\ GilAvailable(t)
    /\ guards' = PushGuard(t)
    /\ gilHolder' = t
    /\ UNCHANGED <<pc, cur, bstate, holder, exported, released, heldAtDrop, restOfLife>>

\* The thread's innermost GILGuard goes out of scope.
drop_gil_guard(t) ==
    /\ pc[t] = "idle"
    /\ Len(guards[t]) > 0
    /\ guards' = PopGuard(t)
    /\ gilHolder' = HolderAfterPop(t)
    /\ UNCHANGED <<pc, cur, bstate, holder, exported, released, heldAtDrop, restOfLife>>

\* PyBuffer::get(py, obj).  The owner's PyObject_GetBuffer either fails
\* ("error": no descriptor is handed out), or fills the Py_buffer; validate
\* then panics when the owner left shape or strides null ("null_shape": the
\* Pin<Box<Py_buffer>> is freed during unwinding, no PyBuffer was built), or
\* the PyBuffer is returned ("ok").
get(t, b) ==
    /\ pc[t] = "idle"
    /\ HoldsGil(t)
    /\ bstate[b] = "none"
    /\ \E outcome \in {"error", "null_shape", "ok"} :
        /\ exported' = [exported EXCEPT ![b] = IF outcome = "error" THEN @ ELSE @ + 1]
        /\ bstate' = [bstate EXCEPT ![b] =
                         CASE outcome = "error" -> "failed"
                           [] outcome = "null_shape" -> "panicked"
                           [] outcome = "ok" -> "live"]
        /\ holder' = [holder EXCEPT ![b] = IF outcome = "ok" THEN t ELSE @]
    /\ UNCHANGED <<gilHolder, guards, pc, cur, released, heldAtDrop, restOfLife>>

\* unsafe impl Send for PyBuffer: the value moves to another thread.
send(t, u, b) ==
    /\ pc[t] = "idle"
    /\ t # u
    /\ bstate[b] = "live"
    /\ holder[b] = t
    /\ ~Borrowed(b)
    /\ holder' = [holder EXCEPT ![b] = u]
    /\ UNCHANGED <<gilHolder, guards, pc, cur, bstate, exported, released, heldAtDrop,
                   restOfLife>>

\* A content-touching operation (&self, py: Python): a view constructor or
\* the copy protocol.  unsafe impl Sync lets any thread borrow the PyBuffer;
\* the py argument needs the GIL.
touch_call(t, b) ==
    /\ pc[t] = "idle"
    /\ HoldsGil(t)
    /\ bstate[b] = "live"
    /\ pc' = [pc EXCEPT ![t] = "in_copy"]
    /\ cur' = [cur EXCEPT ![t] = b]
    /\ UNCHANGED <<gilHolder, guards, bstate, holder, exported, released, heldAtDrop,
                   restOfLife>>

touch_return(t) ==
    /\ pc[t] = "in_copy"
    /\ pc' = [pc EXCEPT ![t] = "idle"]
    /\ cur' = [cur EXCEPT ![t] = NoBuffer]
    /\ UNCHANGED <<gilHolder, guards, bstate, holder, exported, released, heldAtDrop,
                   restOfLife>>

\* PyBuffer::release(self, _py): the call of ffi::PyBuffer_Release ...
release_call(t, b) ==
    /\ pc[t] = "idle"
    /\ HoldsGil(t)
    /\ bstate[b] = "live"
    /\ holder[b] = t
    /\ ~Borrowed(b)
    /\ released' = [released EXCEPT ![b] = @ + 1]
    /\ bstate' = [bstate EXCEPT ![b] = "releasing"]
    /\ pc' = [pc EXCEPT ![t] = "in_release"]
    /\ cur' = [cur EXCEPT ![t] = b]
    /\ UNCHANGED <<gilHolder, guards, holder, exported, heldAtDrop, restOfLife>>

\* ... and, in place of mem::forget(self), self going out of scope at the end
\* of release: Drop::drop starts on the released descriptor.
release_return_without_forget(t) ==
    /\ pc[t] = "in_release"
    /\ bstate' = [bstate EXCEPT ![cur[t]] = "dropping"]
    /\ pc' = [pc EXCEPT ![t] = "drop_acquire"]
    /\ heldAtDrop' = [heldAtDrop EXCEPT ![t] = HoldsGil(t)]
    /\ UNCHANGED <<gilHolder, guards, cur, holder, exported, released, restOfLife>>

\* ... its return and mem::forget(self): no destructor runs for the value.
release_return(t) ==
    /\ pc[t] = "in_release"
    /\ bstate' = [bstate EXCEPT ![cur[t]] = "forgotten"]
    /\ pc' = [pc EXCEPT ![t] = "idle"]
    /\ cur' = [cur EXCEPT ![t] = NoBuffer]
    /\ UNCHANGED <<gilHolder, guards, holder, exported, released, heldAtDrop, restOfLife>>

\* The PyBuffer goes out of scope on its owner's thread (normally or while a
\* panic unwinds): Drop::drop is entered.
drop_enter(t, b) ==
    /\ pc[t] = "idle"
    /\ bstate[b] = "live"
    /\ holder[b] = t
    /\ ~Borrowed(b)
    /\ bstate' = [bstate EXCEPT ![b] = "dropping"]
    /\ pc' = [pc EXCEPT ![t] = "drop_acquire"]
    /\ cur' = [cur EXCEPT ![t] = b]
    /\ heldAtDrop' = [heldAtDrop EXCEPT ![t] = HoldsGil(t)]
    /\ UNCHANGED <<gilHolder, guards, holder, exported, released, restOfLife>>

\* Drop::drop without its first line: no GIL is taken before the release.
drop_without_acquire_gil(t) ==
    /\ pc[t] = "drop_acquire"
    /\ guards' = [guards EXCEPT ![t] = Append(@, FALSE)]
    /\ pc' = [pc EXCEPT ![t] = "drop_call"]
    /\ UNCHANGED <<gilHolder, cur, bstate, holder, exported, released, heldAtDrop,
                   restOfLife>>

\* Drop::drop: let _gil_guard = Python::acquire_gil();
drop_acquire_gil(t) ==
    /\ pc[t] = "drop_acquire"
    /\ GilAvailable(t)
    /\ guards' = PushGuard(t)
    /\ gilHolder' = t
    /\ pc' = [pc EXCEPT ![t] = "drop_call"]
    /\ UNCHANGED <<cur, bstate, holder, exported, released, heldAtDrop, restOfLife>>

\* Drop::drop: ffi::PyBuffer_Release(&mut *self.0) is called ...
drop_call(t) ==
    /\ pc[t] = "drop_call"
    /\ released' = [released EXCEPT ![cur[t]] = @ + 1]
    /\ pc' = [pc EXCEPT ![t] = "drop_in_release"]
    /\ UNCHANGED <<gilHolder, guards, cur, bstate, holder, exported, heldAtDrop, restOfLife>>

\* ... returns, and _gil_guard is dropped at the end of drop.
drop_return(t) ==
    /\ pc[t] = "drop_in_release"
    /\ guards' = PopGuard(t)
    /\ gilHolder' = HolderAfterPop(t)
    /\ bstate' = [bstate EXCEPT ![cur[t]] = "dropped"]
    /\ pc' = [pc EXCEPT ![t] = "idle"]
    /\ cur' = [cur EXCEPT ![t] = NoBuffer]
    /\ heldAtDrop' = [heldAtDrop EXCEPT ![t] = FALSE]
    /\ UNCHANGED <<holder, exported, released, restOfLife>>

Next ==
    \/ \E t \in Threads : acquire_gil(t)
    \/ \E t \in Threads : drop_gil_guard(t)
    \/ \E t \in Threads, b \in Buffers : get(t, b)
    \/ \E t \in Threads, u \in Threads, b \in Buffers : send(t, u, b)
    \/ \E t \in Threads, b \in Buffers : touch_call(t, b)
    \/ \E t \in Threads : touch_return(t)
    \/ \E t \in Threads, b \in Buffers : release_call(t, b)
    \/ \E t \in Threads : release_return(t)
    \/ \E t \in Threads, b \in Buffers : drop_enter(t, b)
    \/ \E t \in Threads : drop_acquire_gil(t)
    \/ \E t \in Threads : drop_call(t)
    \/ \E t \in Threads : drop_return(t)

Spec == InitLife /\ [][Next]_vars

\* C1: for every PyBuffer::get call, PyBuffer_Release is called at most once
\* on its descriptor over its whole lifetime, in every sequence of operations:
\* after an explicit release(py) the value is forgotten and stays so (Drop
\* never runs for it), and a dropped value stays dropped.
C1_ReleasedAtMostOnce ==
    /\ [](\A b \in Buffers :
            /\ released[b] <= 1
            /\ released[b] <= exported[b]
            /\ bstate[b] \in {"releasing", "forgotten", "dropped"} => released[b] = 1)
    /\ [][\A b \in Buffers :
            /\ bstate[b] = "forgotten" => bstate'[b] = "forgotten"
            /\ bstate[b] = "dropped" => bstate'[b] = "dropped"]_vars

\* C1 witness: one descriptor was released explicitly and forgotten, another
\* by Drop, each once.
C1_Witness ==
    \E b, c \in Buffers :
        /\ bstate[b] = "forgotten" /\ released[b] = 1
        /\ bstate[c] = "dropped" /\ released[c] = 1

\* C2: every descriptor the owner hands out on a successful acquire inside
\* PyBuffer::get is returned by exactly one release call on every exit path
\* that follows the acquire, the panicking one included; a failed acquire
\* hands out nothing and causes no release.  Stated on the finished paths:
\* once get has panicked, or the wrapper is forgotten or dropped, the
\* descriptor has been released exactly once.
C2_EveryAcquireReleasedOnce ==
    \A b \in Buffers :
        /\ exported[b] = 0 => released[b] = 0
        /\ (exported[b] = 1 /\ bstate[b] \in {"panicked", "forgotten", "dropped"})
               => released[b] = 1

\* C3: every call of PyBuffer_Release is made by a thread holding the GIL,
\* no two threads are inside a content-touching or release operation at the
\* same time, and Drop leaves the thread's hold on the GIL as it found it: it
\* takes the GIL when the thread did not hold it and gives it up afterwards,
\* and keeps it when the thread held it already.
C3_ReleaseUnderGil ==
    /\ [](/\ \A t \in Threads : pc[t] \in InsidePcs => gilHolder = t
          /\ Cardinality({t \in Threads : pc[t] \in InsidePcs}) <= 1)
    /\ [][\A t \in Threads :
            (pc[t] = "drop_in_release" /\ pc'[t] = "idle")
                => ((gilHolder' = t) <=> heldAtDrop[t])]_vars

\* C3 witness: a thread that did not hold the GIL when its Drop began is
\* inside PyBuffer_Release holding it, while another thread's Drop waits for
\* the GIL.
C3_Witness ==
    \E t, u \in Threads :
        /\ pc[t] = "drop_in_release" /\ ~heldAtDrop[t] /\ gilHolder = t
        /\ pc[u] = "drop_acquire"

(***************************************************************************)
(* SpecCopy: the copy protocol applied, call after call, to one            *)
(* descriptor, with slices of every element type and of right and wrong    *)
(* lengths.  Byte values are drawn from ByteVals: the code never looks at  *)
(* one.                                                                    *)
(***************************************************************************)
ByteVals == {0, 1}

Layout(name) == CHOOSE l \in Layouts : l.name = name

Filled(n, v) == [q \in 1..n |-> v]

\* The block as the owner filled it: 1, 0, 1, 0, ...
PatternMem(b) == [q \in 1..MemSize(b) |-> q % 2]

\* A descriptor whose len the owner did not make a multiple of itemsize: two
\* 2-byte elements and a fifth byte.
RaggedDescriptor ==
    [Descriptor(Layout("vector"), 2, FALSE, FALSE, <<"H">>, TRUE, 0) EXCEPT !.len = 5]

CopyDescriptors ==
    { Descriptor(l, sf[1], ro, FALSE, sf[2], TRUE, 0) :
        l \in {Layout("vector"), Layout("strided")}, ro \in BOOLEAN,
        sf \in {<<1, <<"B">>>>, <<2, <<"H">>>>} }
    \cup { Descriptor(Layout("vector"), sf[1], FALSE, FALSE, sf[2], TRUE, 0) :
             sf \in {<<1, <<"H">>>>, <<2, <<">", "H">>>>} }
    \cup { Descriptor(Layout("vector"), 1, TRUE, TRUE, <<"B">>, TRUE, 0),
           Descriptor(Layout("empty"), 8, FALSE, FALSE, <<"d">>, TRUE, 0),
           Descriptor(Layout("scalar"), 4, FALSE, FALSE, <<"f">>, TRUE, 0),
           Descriptor(Layout("f_matrix"), 1, FALSE, FALSE, <<"B">>, TRUE, 0),
           RaggedDescriptor }

InitCopy ==
    /\ plat = CHOOSE p \in Platforms : p.name = "x86_64-linux"
    /\ desc \in CopyDescriptors
    /\ mem = PatternMem(desc)
    /\ dres = NoOp
    /\ IdleFormat
    /\ IdleView
    /\ IdleLife
    /\ IdlePtr
    /\ IdleAlias

\* The owner's primitive may report failure (ok = FALSE) in a call that
\* reaches it; where res shows it is not reached there is nothing to choose.
OwnerAnswers(res) == IF res.called THEN BOOLEAN ELSE {TRUE}

CopyTo(name, fort) ==
    \E T \in ElementNames, n \in 0..MaxSliceLen :
      \E ok \in OwnerAnswers(copy_to_slice_impl(plat, desc, mem, T,
                                  Filled(n * size_of(plat, T), 0), fort, TRUE)) :
        LET target == Filled(n * size_of(plat, T), 0)
            res == copy_to_slice_impl(plat, desc, mem, T, target, fort, ok)
        IN  /\ dres' = Op(name, T, fort, target, 0, <<>>, res)
            /\ mem' = res.mem
            /\ UNCHANGED <<plat, desc, restOfCopy>>

CopyFrom(name, fort) ==
    \E T \in ElementNames, n \in 0..MaxSliceLen, v \in ByteVals :
      \E ok \in OwnerAnswers(copy_from_slice_impl(plat, desc, mem, T,
                                  Filled(n * size_of(plat, T), v), fort, TRUE)) :
        LET source == Filled(n * size_of(plat, T), v)
            res == copy_from_slice_impl(plat, desc, mem, T, source, fort, ok)
        IN  /\ dres' = Op(name, T, fort, source, 0, <<>>, res)
            /\ mem' = res.mem
            /\ UNCHANGED <<plat, desc, restOfCopy>>

ToVec(name, fort) ==
    \E T \in ElementNames :
      \E ok \in OwnerAnswers(to_vec_impl(plat, desc, mem, T, fort, TRUE)) :
        LET res == to_vec_impl(plat, desc, mem, T, fort, ok)
        IN  /\ dres' = Op(name, T, fort, <<>>, 0, <<>>, res)
            /\ mem' = res.mem
            /\ UNCHANGED <<plat, desc, restOfCopy>>

copy_to_slice == CopyTo("copy_to_slice", "C")

copy_to_fortran_slice == CopyTo("copy_to_fortran_slice", "F")

copy_from_slice == CopyFrom("copy_from_slice", "C")

copy_from_fortran_slice == CopyFrom("copy_from_fortran_slice", "F")

to_vec == ToVec("to_vec", "C")

to_fortran_vec == ToVec("to_fortran_vec", "F")

NextCopy ==
    \/ copy_to_slice
    \/ copy_to_fortran_slice
    \/ copy_from_slice
    \/ copy_from_fortran_slice
    \/ to_vec
    \/ to_fortran_vec

SpecCopy == InitCopy /\ [][NextCopy]_vars

CopyToOps == {"copy_to_slice", "copy_to_fortran_slice"}
CopyFromOps == {"copy_from_slice", "copy_from_fortran_slice"}

\* The element type of the last call fails the format check of the copy
\* protocol.
LastFormatBad ==
    \/ ~is_compatible_format(plat, dres.T, format(desc))
    \/ size_of(plat, dres.T) # desc.itemsize

\* The calls C7 is about: copy_to on any descriptor, copy_from on a writable one.
LengthChecked(d) == d.op \in CopyToOps \/ (d.op \in CopyFromOps /\ ~desc.readonly)

\* C6: copy_from_slice and copy_from_fortran_slice on a read-only descriptor
\* fail with the read-only error for every source slice, whatever its length
\* or element type; the owner's copy-from primitive is not called and the
\* buffer's bytes are as before the call.
C6_ReadOnlyCopyFromFails ==
    /\ []((dres.op \in CopyFromOps /\ desc.readonly)
            => (dres.r = "ReadOnly" /\ ~dres.called))
    /\ [][(dres'.op \in CopyFromOps /\ desc.readonly) => mem' = mem]_vars

\* C6 witness: a source of the wrong length and of an incompatible element
\* type, on a read-only descriptor, is answered with the read-only error.
C6_Witness ==
    /\ dres.op \in CopyFromOps
    /\ desc.readonly
    /\ Len(dres.arg) # desc.len
    /\ LastFormatBad
    /\ dres.r = "ReadOnly"

\* C7: copy_to_slice / copy_to_fortran_slice, and copy_from_slice /
\* copy_from_fortran_slice on a writable descriptor, fail with the
\* length-mismatch error whenever the slice's byte length differs from
\* total_bytes, also when the element type is incompatible as well (the
\* length is checked first); after a length or a format failure the copy
\* primitive was not called, the slice is as it was handed in and the buffer's
\* bytes are as before.
C7_LengthCheckedBeforeFormat ==
    /\ [](LengthChecked(dres) =>
            /\ Len(dres.arg) # desc.len => dres.r = "LengthMismatch"
            /\ dres.r \in {"LengthMismatch", "IncompatibleFormat"}
                   => (~dres.called /\ dres.out = dres.arg))
    /\ [][(LengthChecked(dres') /\ dres'.r \in {"LengthMismatch", "IncompatibleFormat"})
              => mem' = mem]_vars

\* C7 witness: a target of the wrong length and of an incompatible element
\* type is answered with the length mismatch, not the format error.
C7_Witness ==
    /\ dres.op \in CopyToOps
    /\ Len(dres.arg) # desc.len
    /\ LastFormatBad
    /\ dres.r = "LengthMismatch"
    /\ ~dres.called

(***************************************************************************)
(* SpecAlias: the caller keeps views of one descriptor while the same      *)
(* memory is written through a mutable view (Cell::set) and through the    *)
(* copy protocol, and read back with to_vec.  The memory starts with any   *)
(* contents; copy_from is called with every source of total_bytes bytes.   *)
(***************************************************************************)
AliasTypes == {"u8", "u16"}

AliasDescriptors ==
    { Descriptor(Layout(n), 1, FALSE, FALSE, <<"B">>, TRUE, 0) :
        n \in {"vector", "strided", "broadcast", "c_matrix", "f_matrix"} }
    \cup { Descriptor(Layout("vector"), 1, TRUE, FALSE, <<"B">>, TRUE, 0),
           Descriptor(Layout("vector"), 1, FALSE, TRUE, <<>>, TRUE, 0),
           Descriptor(Layout("vector"), 2, FALSE, FALSE, <<"H">>, TRUE, 0) }

InitAlias ==
    /\ plat = CHOOSE p \in Platforms : p.name = "x86_64-linux"
    /\ desc \in AliasDescriptors
    /\ mem \in SeqsOver(ByteVals, MemSize(desc))
    /\ dres = NoOp
    /\ roView = NoViewHeld
    /\ mutView = NoViewHeld
    /\ IdleFormat
    /\ IdleView
    /\ IdleLife
    /\ IdlePtr

\* The Option a view constructor returned.
ViewOp(name, T, fort, v) ==
    Op(name, T, fort, <<>>, 0, <<>>,
       [r |-> IF v.some THEN "Some" ELSE "None", called |-> FALSE, out |-> <<>>])

KeepAsSlice ==
    \E T \in AliasTypes :
      LET v == as_slice(plat, desc, T) IN
        /\ roView' = IF v.some THEN Held("as_slice", v) ELSE roView
        /\ dres' = ViewOp("as_slice", T, "C", v)
        /\ UNCHANGED <<plat, desc, mem, mutView, restOfAlias>>

KeepAsFortranSlice ==
    \E T \in AliasTypes :
      LET v == as_fortran_slice(plat, desc, T) IN
        /\ roView' = IF v.some THEN Held("as_fortran_slice", v) ELSE roView
        /\ dres' = ViewOp("as_fortran_slice", T, "F", v)
        /\ UNCHANGED <<plat, desc, mem, mutView, restOfAlias>>

KeepAsMutSlice ==
    \E T \in AliasTypes :
      LET v == as_mut_slice(plat, desc, T) IN
        /\ mutView' = IF v.some THEN Held("as_mut_slice", v) ELSE mutView
        /\ dres' = ViewOp("as_mut_slice", T, "C", v)
        /\ UNCHANGED <<plat, desc, mem, roView, restOfAlias>>

KeepAsFortranMutSlice ==
    \E T \in AliasTypes :
      LET v == as_fortran_mut_slice(plat, desc, T) IN
        /\ mutView' = IF v.some THEN Held("as_fortran_mut_slice", v) ELSE mutView
        /\ dres' = ViewOp("as_fortran_mut_slice", T, "F", v)
        /\ UNCHANGED <<plat, desc, mem, roView, restOfAlias>>

\* mut_slice[i].set(val): the size_of(T) bytes at ptr + i * size_of(T).
cell_set ==
    /\ mutView.view.some
    /\ \E i \in 0..(mutView.view.len - 1),
          val \in SeqsOver(ByteVals, size_of(plat, mutView.view.T)) :
         LET at == (mutView.view.ptr - desc.buf) + i * size_of(plat, mutView.view.T)
         IN  /\ mem' = [q \in 1..Len(mem) |->
                          IF at < q /\ q <= at + Len(val) THEN val[q - at] ELSE mem[q]]
             /\ dres' = Op("cell_set", mutView.view.T, "-", <<>>, i, val,
                           [r |-> "Ok", called |-> FALSE, out |-> <<>>])
             /\ UNCHANGED <<plat, desc, roView, mutView, restOfAlias>>

\* The caller's slice is of the descriptor's element size, and the owner's
\* primitives do not fail here (SpecCopy has the failing calls).
WriteAll(name, fort) ==
    \E T \in {U \in AliasTypes : size_of(plat, U) = item_size(desc)},
       source \in SeqsOver(ByteVals, len_bytes(desc)) :
      \E res \in {copy_from_slice_impl(plat, desc, mem, T, source, fort, TRUE)} :
        /\ dres' = Op(name, T, fort, source, 0, <<>>, res)
        /\ mem' = res.mem
        /\ UNCHANGED <<plat, desc, roView, mutView, restOfAlias>>

ReadAll(name, fort) ==
    \E T \in AliasTypes :
      \E res \in {to_vec_impl(plat, desc, mem, T, fort, TRUE)} :
        /\ dres' = Op(name, T, fort, <<>>, 0, <<>>, res)
        /\ mem' = res.mem
        /\ UNCHANGED <<plat, desc, roView, mutView, restOfAlias>>

write_copy_from_slice == WriteAll("copy_from_slice", "C")

write_copy_from_fortran_slice == WriteAll("copy_from_fortran_slice", "F")

read_to_vec == ReadAll("to_vec", "C")

read_to_fortran_vec == ReadAll("to_fortran_vec", "F")

NextAlias ==
    \/ KeepAsSlice
    \/ KeepAsFortranSlice
    \/ KeepAsMutSlice
    \/ KeepAsFortranMutSlice
    \/ cell_set
    \/ write_copy_from_slice
    \/ write_copy_from_fortran_slice
    \/ read_to_vec
    \/ read_to_fortran_vec

SpecAlias == InitAlias /\ [][NextAlias]_vars

ToVecOps == {"to_vec", "to_fortran_vec"}

\* slice[i].get(): the bytes of element i of view v, read from memory m.
ViewGet(p, b, m, v, i) ==
    SubSeq(m, (v.ptr - b.buf) + i * size_of(p, v.T) + 1,
              (v.ptr - b.buf) + (i + 1) * size_of(p, v.T))

\* Element i of a slice or vector of T given as its bytes.
Elem(p, T, s, i) == SubSeq(s, i * size_of(p, T) + 1, (i + 1) * size_of(p, T))

ViewOrder(h) ==
    IF h.by \in {"as_fortran_slice", "as_fortran_mut_slice"} THEN "F" ELSE "C"

\* Call d visits the elements in the order of view h's constructor, or the
\* descriptor is contiguous in both orders (the two orders are then one).
SameOrder(h, d) ==
    \/ d.fort = ViewOrder(h)
    \/ is_c_contiguous(desc) /\ is_fortran_contiguous(desc)

ViewShape(h) ==
    h.view.some => (h.view.len = item_count(desc) /\ h.view.ptr = desc.buf)

AfterCellSet(h) ==
    dres'.op = "cell_set" =>
      \A i \in 0..(h.view.len - 1) :
        ViewGet(plat, desc, mem', h.view, i) =
          IF i = dres'.idx THEN dres'.val ELSE ViewGet(plat, desc, mem, h.view, i)

AfterCopyFrom(h, ops, anyOrder) ==
    (dres'.op \in ops /\ dres'.r = "Ok" /\ (anyOrder \/ SameOrder(h, dres'))) =>
      \A i \in 0..(h.view.len - 1) :
        ViewGet(plat, desc, mem', h.view, i) = Elem(plat, dres'.T, dres'.arg, i)

AfterToVec(h, ops, anyOrder) ==
    (dres'.op \in ops /\ dres'.r = "Ok" /\ (anyOrder \/ SameOrder(h, dres'))) =>
      /\ Len(dres'.out) = h.view.len * size_of(plat, h.view.T)
      /\ \A i \in 0..(h.view.len - 1) :
           Elem(plat, dres'.T, dres'.out, i) = ViewGet(plat, desc, mem', h.view, i)

\* Nothing but Cell::set and a copy_from that went through writes the memory.
NoOtherWrite ==
    (\/ dres'.op \notin ({"cell_set"} \cup CopyFromOps)
     \/ dres'.op \in CopyFromOps /\ dres'.r # "Ok") => mem' = mem

\* C5 (as amended): a view returned by a view constructor has item_count
\* elements and starts at the descriptor's memory; for a read-only view
\* obtained earlier, element i reads the value last stored in element i by
\* Cell::set through a mutable view, or by a copy_from call that visits the
\* elements in the order of the view's constructor (copy_from_slice for
\* as_slice, copy_from_fortran_slice for as_fortran_slice, either when the
\* descriptor is contiguous in both orders), and to_vec in that order returns
\* the values the view reads.
C5_ViewsAliasMemory ==
    /\ [](ViewShape(roView) /\ ViewShape(mutView))
    /\ [][roView.view.some =>
            /\ AfterCellSet(roView)
            /\ AfterCopyFrom(roView, CopyFromOps, FALSE)
            /\ AfterToVec(roView, ToVecOps, FALSE)
            /\ NoOtherWrite]_vars

\* C5 as stated: the same for the view of any of the four constructors with
\* copy_from_slice and to_vec, which visit the elements in C order.
C5_Original ==
    /\ [](ViewShape(roView) /\ ViewShape(mutView))
    /\ [][roView.view.some =>
            /\ AfterCellSet(roView)
            /\ AfterCopyFrom(roView, {"copy_from_slice"}, TRUE)
            /\ AfterToVec(roView, {"to_vec"}, TRUE)
            /\ NoOtherWrite]_vars

\* C5 witness: with a read-only and a mutable view of a 2 x 2 matrix held,
\* mut_slice[1].set(1) has just run and the read-only view reads 0, 1.
C5_Witness ==
    /\ roView.by = "as_slice"
    /\ mutView.view.some
    /\ desc.ndim = 2
    /\ dres.op = "cell_set"
    /\ dres.idx = 1
    /\ dres.val = <<1>>
    /\ ViewGet(plat, desc, mem, roView.view, 0) = <<0>>
    /\ ViewGet(plat, desc, mem, roView.view, 1) = <<1>>

\* The descriptors C8 is about.
ByteBuffer == ~readonly(desc) /\ format(desc) = <<"B">> /\ item_size(desc) = 1

\* No two elements of the descriptor share a byte.
ElementsDisjoint(b) ==
    \A j, k \in 0..(item_count(b) - 1) :
      j # k => \/ ElemOffset(b, j, "C") + b.itemsize <= ElemOffset(b, k, "C")
               \/ ElemOffset(b, k, "C") + b.itemsize <= ElemOffset(b, j, "C")

\* On a byte buffer the u8 calls of the right length succeed (the owner's
\* primitives not failing).
ByteCallsAccepted ==
    (/\ ByteBuffer
     /\ dres'.T = "u8"
     /\ \/ dres'.op = "to_vec"
        \/ dres'.op = "copy_from_slice" /\ Len(dres'.arg) = len_bytes(desc))
      => dres'.r = "Ok"

\* v = to_vec::<u8>() and then copy_from_slice(v).
WriteBackLaw ==
    (/\ ByteBuffer
     /\ dres.op = "to_vec" /\ dres.T = "u8" /\ dres.r = "Ok"
     /\ dres'.op = "copy_from_slice" /\ dres'.T = "u8" /\ dres'.arg = dres.out)
      => mem' = mem

\* copy_from_slice(s) and then to_vec::<u8>().
ReadBackLaw(disjointOnly) ==
    (/\ ByteBuffer
     /\ disjointOnly => ElementsDisjoint(desc)
     /\ dres.op = "copy_from_slice" /\ dres.T = "u8" /\ dres.r = "Ok"
     /\ dres'.op = "to_vec" /\ dres'.T = "u8" /\ dres'.r = "Ok")
      => dres'.out = dres.arg

\* C8 (as amended): on a writable descriptor with format "B" and item_size 1,
\* v = to_vec::<u8>() followed by copy_from_slice(v) succeeds and leaves
\* every byte of the buffer as it was; copy_from_slice(s) followed by
\* to_vec::<u8>() returns exactly s, for every s of total_bytes bytes, when
\* no two elements of the descriptor share a byte.
C8_RoundTrip == [][ByteCallsAccepted /\ WriteBackLaw /\ ReadBackLaw(TRUE)]_vars

\* C8 as stated: the second round trip on every such descriptor.
C8_Original == [][ByteCallsAccepted /\ WriteBackLaw /\ ReadBackLaw(FALSE)]_vars

\* C8 witness: on a strided (not contiguous) writable byte buffer
\* copy_from_slice([1, 0]) went through, and to_vec::<u8>() reads 1, 0 back.
C8_Witness ==
    /\ ByteBuffer
    /\ ~is_c_contiguous(desc)
    /\ ElementsDisjoint(desc)
    /\ dres.op = "copy_from_slice"
    /\ dres.T = "u8"
    /\ dres.r = "Ok"
    /\ dres.arg = <<1, 0>>
    /\ to_vec_impl(plat, desc, mem, "u8", "C", TRUE).out = dres.arg

(***************************************************************************)
(* SpecPtr: get_ptr called, again and again, on one descriptor with index  *)
(* slices of every length up to MaxIndices, in and out of range.           *)
(***************************************************************************)
StrayWords == {0, 1}

PtrDescriptors ==
    { Descriptor(l, sf[1], FALSE, FALSE, sf[2], TRUE, a) :
        l \in Layouts, sf \in {<<1, <<"B">>>>, <<2, <<"H">>>>}, a \in 0..MaxAddr }

InitPtr ==
    /\ plat = CHOOSE p \in Platforms : p.name = "x86_64-linux"
    /\ desc \in PtrDescriptors
    /\ pres = NoPtrCall
    /\ IdleFormat
    /\ IdleView
    /\ IdleLife
    /\ IdleCopy
    /\ IdleAlias

CallGetPtr ==
    \E k \in 0..MaxIndices :
      \E indices \in SeqsOver(0..MaxIndex, k),
         beyond \in SeqsOver(StrayWords, IF k < desc.ndim THEN desc.ndim - k ELSE 0) :
        /\ pres' = PtrCall(indices, beyond, get_ptr(desc, indices, beyond))
        /\ UNCHANGED <<plat, desc, restOfPtr>>

NextPtr == CallGetPtr

SpecPtr == InitPtr /\ [][NextPtr]_vars

\* Some supplied index is not below the extent of its dimension.
OutOfRange(b, indices) ==
    \E i \in 1..Len(indices) : i <= b.ndim /\ indices[i] >= b.shape[i]

\* C11: get_ptr(indices) with some indices[i] >= shape[i] panics (on the
\* assertion, for a slice no longer than ndim): it returns no address and no
\* error value, and PyBuffer_GetPointer is not called; whenever it is called,
\* every supplied index is below its extent.
C11_OutOfRangeIndexPanics ==
    /\ (pres.op = "get_ptr" /\ OutOfRange(desc, pres.indices)) =>
         /\ pres.outcome = "panic"
         /\ ~pres.called
         /\ Len(pres.indices) <= desc.ndim => pres.kind = "assertion"
    /\ pres.called => ~OutOfRange(desc, pres.indices)

\* C11 witness: on a 2 x 2 descriptor get_ptr(&[1, 2]) failed its assertion.
C11_Witness ==
    /\ pres.op = "get_ptr"
    /\ desc.shape = <<2, 2>>
    /\ pres.indices = <<1, 2>>
    /\ pres.outcome = "panic"
    /\ pres.kind = "assertion"

\* The supplied slice is an index prefix: no longer than ndim, every index
\* below its extent.
ValidPrefix(b, indices) ==
    /\ Len(indices) <= b.ndim
    /\ \A i \in 1..Len(indices) : indices[i] < b.shape[i]

RECURSIVE PrefixOffset(_, _, _)
PrefixOffset(b, indices, i) ==
    IF i > Len(indices) THEN 0
    ELSE indices[i] * b.strides[i] + PrefixOffset(b, indices, i + 1)

\* C12: get_ptr(indices) accepts every index prefix of length k <= ndim and
\* returns data_ptr plus the sum over i < k of indices[i] * strides[i], the
\* dimensions from k on contributing nothing: the address depends only on
\* the k indices supplied.
C12_PrefixAddress ==
    (pres.op = "get_ptr" /\ ValidPrefix(desc, pres.indices)) =>
      /\ pres.outcome = "address"
      /\ pres.addr = desc.buf + PrefixOffset(desc, pres.indices, 1)

(***************************************************************************)
(* to_vec / to_fortran_vec under SpecCopy.                                 *)
(***************************************************************************)
\* The descriptor's len is item_count elements of itemsize bytes.
Conforming(b) == b.len = item_count(b) * b.itemsize

\* The bytes of the descriptor's elements, one element after the other in
\* the given order.
ElementsInOrder(b, m, fort) ==
    [q \in 1..(item_count(b) * b.itemsize) |->
        m[ElemOffset(b, (q - 1) \div b.itemsize, fort) + ((q - 1) % b.itemsize) + 1]]

\* C13: to_vec::<T> / to_fortran_vec::<T> return the format error without
\* calling the copy primitive when T is incompatible with the format or of
\* another size than item_size; otherwise the primitive is called and the
\* result is Ok, with a vector of exactly item_count elements holding the
\* buffer's elements in the requested order, or the primitive's error; with
\* an error no vector is returned.
C13_ToVecOutcome ==
    dres.op \in ToVecOps =>
      /\ LastFormatBad => (dres.r = "IncompatibleFormat" /\ ~dres.called)
      /\ ~LastFormatBad => (dres.called /\ dres.r \in {"Ok", "PrimitiveError"})
      /\ (dres.r = "Ok" /\ Conforming(desc)) =>
           /\ Len(dres.out) = item_count(desc) * size_of(plat, dres.T)
           /\ dres.out = ElementsInOrder(desc, mem, dres.fort)
      /\ dres.r # "Ok" => dres.out = <<>>

\* C13 witness: to_vec::<u8> on a Fortran-contiguous 2 x 2 byte matrix whose
\* memory is 1, 0, 1, 0 returned the rows 1, 1 and 0, 0.
C13_Witness ==
    /\ dres.op = "to_vec"
    /\ dres.T = "u8"
    /\ dres.r = "Ok"
    /\ desc.shape = <<2, 2>>
    /\ mem = <<1, 0, 1, 0>>
    /\ dres.out = <<1, 1, 0, 0>>

\* C14: whenever the copy primitive has written for to_vec / to_fortran_vec,
\* the byte count it was asked to write (self.0.len) is at most
\* item_count * size_of T, the capacity of the vector allocated for it.
C14_NoWritePastAllocation ==
    (dres.op \in ToVecOps /\ dres.called /\ dres.r = "Ok") =>
      to_vec_request(desc) <= to_vec_capacity(plat, desc, dres.T)

(***************************************************************************)
(* Compatibility against classification, under SpecFormat.                 *)
(***************************************************************************)
\* The supported element types compatible with format f on target p.
CompatibleTypes(p, f) == {T \in ElementNames : is_compatible_format(p, T, f)}

\* C15: for every format string, the supported element types T with
\* T::is_compatible_format(format) true all have the kind and the byte width
\* ElementType::from_format gives for the string, hence the same kind and
\* width as each other; none is compatible with a format classified as Bool,
\* Unknown or Float of 2 bytes.
C15_CompatibilityNeverConflates ==
    fres.op = "is_compatible_format" =>
      /\ fres.ok <=> fres.T \in CompatibleTypes(plat, fmt)
      /\ \A T \in CompatibleTypes(plat, fmt) :
           /\ element_tag(T) = from_format(plat, fmt).tag
           /\ size_of(plat, T) = from_format(plat, fmt).bytes
      /\ \A T, U \in CompatibleTypes(plat, fmt) :
           element_tag(T) = element_tag(U) /\ size_of(plat, T) = size_of(plat, U)
      /\ (\/ from_format(plat, fmt).tag \in {"Bool", "Unknown"}
          \/ from_format(plat, fmt) = Float(2)) => CompatibleTypes(plat, fmt) = {}

\* C15 witness: "Q" on a 64-bit target is compatible with usize, and with
\* u64 as well: two types of one kind and one width.
C15_Witness ==
    /\ fres.op = "is_compatible_format"
    /\ fres.T = "usize"
    /\ fres.ok
    /\ fmt = <<"Q">>
    /\ CompatibleTypes(plat, fmt) = {"u64", "usize"}

====
